---- MODULE Spec2Model ----
(***************************************************************************)
(* bin/cmd.js of module-best-practices: the module exports a read stream   *)
(* over the bundled README.md and, when it is the process's entry module,  *)
(* pipes that stream into the stdin of a spawned pager.                     *)
(*                                                                         *)
(* The state is one node process at a time (a later invocation starts only *)
(* after the earlier one has exited), the file system it reads, the stream *)
(* object created by line 6, the destinations piped to it, and the pager   *)
(* child spawned by line 9.                                                *)
(***************************************************************************)
EXTENDS Integers, Sequences, FiniteSets

\* ------------------------------------------------------------------ bounds
MaxDocLen == 5          \* longest Document, in bytes
MaxRuns == 2            \* invocations of the program in one behaviour
HighWaterMark == 2      \* readable side: bytes per fs read and buffer threshold
WritableHWM == 1        \* writable side of a destination: buffer threshold

\* ------------------------------------------------------------- environment
Min(a, b) == IF a < b THEN a ELSE b

\* __dirname of bin/cmd.js, as path segments from the root
Dirname == <<"pkg", "bin">>

\* where the package keeps README.md
BundledPath == <<"pkg", "README.md">>

Cwds == {<<"pkg", "bin">>, <<"home", "work">>}

\* process.argv beyond the script: nothing, or one argument that names a file
Argvs == {<<>>, << <<"home", "README.md">> >>}

Paths == {BundledPath, <<"home", "README.md">>}

\* a text that is not the Document, kept at the other path
Decoy == <<9>>

Docs == {[i \in 1..n |-> i] : n \in 0..MaxDocLen}

DiskEntries ==
    {[kind |-> "file", data |-> d] : d \in Docs}
        \cup {[kind |-> "absent", data |-> <<>>], [kind |-> "noaccess", data |-> <<1>>]}

Dests == {"pager", "importerA", "importerB"}

Importers == {"importerA", "importerB"}

VARIABLES
    disk,           \* file system: path -> entry (never written by the program)
    pagerInstalled, \* whether the pager executable can be spawned
    run,            \* invocations started so far
    completed,      \* per finished-or-current run whose stream ended: its whole output
    opened,         \* of the runs so far: working directory and path opened from it
    opens,          \* fs.open calls this process has issued
    phase,          \* "none" | "running" | "exited"
    isMain,         \* require.main === module
    argv,           \* process.argv beyond the script
    cwd,            \* process.cwd()
    exported,       \* module.exports: 0 (nothing) or the id of the stream object
    path,           \* the path handed to fs.createReadStream
    fd,             \* "none" | "opening" | "open" | "closed" | "failed"
    pos,            \* file offset of the next read
    buf,            \* readable buffer: sequence of chunks
    eof,            \* a read returned no bytes
    flowing,        \* "null" | "flowing" | "paused"
    ended,          \* 'end' was emitted
    emitted,        \* every byte the stream has emitted as data, in order
    piped,          \* destinations currently piped
    awaitDrain,     \* piped destinations whose write returned false
    destBuf,        \* per destination: bytes written to it and not yet consumed
    recv,           \* per destination: bytes its consumer has taken
    destEnded,      \* per destination: end() was called on it
    attachedAt,     \* per destination: Len(emitted) when it was piped, -1 if never
    handle,         \* per destination: the stream object it was piped from, 0 if none
    endCalls,       \* per destination: how often end() was called on it
    pager,          \* "none" | "running" | "failed" | "exited" | "reaped"
    errListener,    \* the importer put an 'error' listener on the handle
    errSeen,        \* the error that listener received, "none" if none
    exitCode,       \* -1 while the process has not exited
    stderr          \* diagnostics written to the error channel

env == <<disk, pagerInstalled>>
proc == <<run, phase, isMain, argv, cwd, exported, path>>
stream == <<fd, pos, buf, eof, flowing, ended, emitted>>
dests == <<piped, awaitDrain, destBuf, recv, destEnded, attachedAt, handle, endCalls>>
outcome == <<exitCode, stderr>>
ledger == <<completed, opened, opens>>
vars == <<env, proc, stream, dests, outcome, ledger, pager, errListener, errSeen>>

\* the bundled guide, as the spec's "Document"
Document == disk[BundledPath].data

\* ----------------------------------------------------------- pure helpers
RECURSIVE Resolve(_, _)
\* path normalisation as the file system does it: ".." drops the segment before it
Resolve(done, rest) ==
    IF rest = <<>> THEN done
    ELSE IF Head(rest) = ".." /\ done # <<>>
    THEN Resolve(SubSeq(done, 1, Len(done) - 1), Tail(rest))
    ELSE Resolve(Append(done, Head(rest)), Tail(rest))

Normalize(p) == Resolve(<<>>, p)

DocumentPath_FromCwd(dir, args) == Normalize(dir \o <<"..", "README.md">>)

DocumentPath_FromArgv(dir, args) ==
    IF args = <<>> THEN Normalize(Dirname \o <<"..", "README.md">>) ELSE Head(args)

\* line 6: __dirname + '/../README.md'; neither cwd nor argv takes part
DocumentPath(dir, args) == Normalize(Dirname \o <<"..", "README.md">>)

IsEntryPoint_Always(main) == TRUE

\* line 8: require.main === module
IsEntryPoint(main) == main

NewStreamPos_Shared == pos

\* fs.createReadStream without a start option reads from offset 0
NewStreamPos == 0

OpenResult_MissingIsEmpty(entry) == IF entry.kind = "noaccess" THEN "EACCES" ELSE "ok"

\* result of the asynchronous fs.open behind createReadStream
OpenResult(entry) ==
    CASE entry.kind = "file" -> "ok"
      [] entry.kind = "absent" -> "ENOENT"
      [] OTHER -> "EACCES"

ReadChunk_Skip(doc, at) == SubSeq(doc, at + 2, Min(at + 1 + HighWaterMark, Len(doc)))

\* one fs.read: up to HighWaterMark bytes at the current offset
ReadChunk(doc, at) == SubSeq(doc, at + 1, Min(at + HighWaterMark, Len(doc)))

RECURSIVE BufLen(_)
BufLen(b) == IF b = <<>> THEN 0 ELSE Len(Head(b)) + BufLen(Tail(b))

ReadWanted_Eager == TRUE

\* the stream asks the file for more only while its buffer is below the mark
ReadWanted == BufLen(buf) < HighWaterMark

ErrorHandled_Never(listener) == FALSE

\* an emitted 'error' is delivered to a listener when there is one;
\* line 6 and line 9 attach none themselves
ErrorHandled(listener) == listener

FdAfterEnd_Leak == "open"

\* autoClose: the descriptor after 'end'
FdAfterEnd == "closed"

\* the operating system releases the descriptor when the process goes away
TeardownFd(f) == IF f \in {"open", "opening"} THEN "closed" ELSE f

IsPrefix(s, t) == Len(s) <= Len(t) /\ s = SubSeq(t, 1, Len(s))

\* ------------------------------------------------------------------- Init
Init ==
    /\ disk \in {[p \in Paths |-> IF p = BundledPath THEN e
                                  ELSE [kind |-> "file", data |-> Decoy]] : e \in DiskEntries}
    /\ pagerInstalled \in BOOLEAN
    /\ run = 0
    /\ completed = <<>>
    /\ opened = {}
    /\ opens = 0
    /\ phase = "none"
    /\ isMain = FALSE
    /\ argv = <<>>
    /\ cwd = Dirname
    /\ exported = 0
    /\ path = <<>>
    /\ fd = "none"
    /\ pos = 0
    /\ buf = <<>>
    /\ eof = FALSE
    /\ flowing = "null"
    /\ ended = FALSE
    /\ emitted = <<>>
    /\ piped = {}
    /\ awaitDrain = {}
    /\ destBuf = [d \in Dests |-> <<>>]
    /\ recv = [d \in Dests |-> <<>>]
    /\ destEnded = [d \in Dests |-> FALSE]
    /\ attachedAt = [d \in Dests |-> -1]
    /\ handle = [d \in Dests |-> 0]
    /\ endCalls = [d \in Dests |-> 0]
    /\ pager = "none"
    /\ errListener = FALSE
    /\ errSeen = "none"
    /\ exitCode = -1
    /\ stderr = <<>>

\* ---------------------------------------------------------------- actions
\* An uncaught exception (an 'error' event nobody listens for): node prints
\* the error on stderr and exits with a non-zero code.
Crash(kind) ==
    /\ phase' = "exited"
    /\ exitCode' = 1
    /\ stderr' = Append(stderr, kind)
    /\ fd' = TeardownFd(fd)

PagerAtLoad_Deferred(installed) == "none"

\* line 9: pager() spawns the pager while the module body runs
PagerAtLoad(installed) == IF installed THEN "running" ELSE "failed"

\* node runs bin/cmd.js top to bottom (lines 3-9), as the entry module or
\* because another module of a fresh process requires it.
Load(main, args, dir) ==
    /\ phase # "running"
    /\ run < MaxRuns
    /\ run' = run + 1
    /\ phase' = "running"
    /\ isMain' = main
    /\ argv' = args
    /\ cwd' = dir
    /\ exported' = run + 1
    /\ path' = DocumentPath(dir, args)
    /\ fd' = "opening"
    /\ pos' = NewStreamPos
    /\ buf' = <<>>
    /\ eof' = FALSE
    /\ ended' = FALSE
    /\ emitted' = <<>>
    /\ IF IsEntryPoint(main)
       THEN /\ pager' = PagerAtLoad(pagerInstalled)
            /\ piped' = {"pager"}
            /\ flowing' = "flowing"
            /\ attachedAt' = [d \in Dests |-> IF d = "pager" THEN 0 ELSE -1]
            /\ handle' = [d \in Dests |-> IF d = "pager" THEN run + 1 ELSE 0]
       ELSE /\ pager' = "none"
            /\ piped' = {}
            /\ flowing' = "null"
            /\ attachedAt' = [d \in Dests |-> -1]
            /\ handle' = [d \in Dests |-> 0]
    /\ endCalls' = [d \in Dests |-> 0]
    /\ opened' = opened \cup {[cwd |-> dir, path |-> DocumentPath(dir, args)]}
    /\ opens' = 1
    /\ awaitDrain' = {}
    /\ destBuf' = [d \in Dests |-> <<>>]
    /\ recv' = [d \in Dests |-> <<>>]
    /\ destEnded' = [d \in Dests |-> FALSE]
    /\ errListener' = FALSE
    /\ errSeen' = "none"
    /\ exitCode' = -1
    /\ stderr' = <<>>
    /\ UNCHANGED <<env, completed>>

\* fs.open succeeds
OpenOk ==
    /\ phase = "running"
    /\ fd = "opening"
    /\ OpenResult(disk[path]) = "ok"
    /\ fd' = "open"
    /\ UNCHANGED <<env, proc, pos, buf, eof, flowing, ended, emitted, dests, outcome,
                   ledger, pager, errListener, errSeen>>

\* fs.open fails: the stream emits 'error'
OpenFail ==
    /\ phase = "running"
    /\ fd = "opening"
    /\ OpenResult(disk[path]) # "ok"
    /\ IF ErrorHandled(errListener)
       THEN /\ errSeen' = OpenResult(disk[path])
            /\ fd' = "failed"
            /\ UNCHANGED <<phase, outcome>>
       ELSE /\ Crash(OpenResult(disk[path]))
            /\ UNCHANGED errSeen
    /\ UNCHANGED <<env, run, isMain, argv, cwd, exported, path, pos, buf, eof, flowing,
                   ended, emitted, dests, ledger, pager, errListener>>

\* one fs.read completes: the bytes are pushed, or the end of file is seen
Read ==
    /\ phase = "running"
    /\ fd = "open"
    /\ ~eof
    /\ flowing # "null"
    /\ ReadWanted
    /\ LET chunk == ReadChunk(disk[path].data, pos) IN
       IF chunk = <<>>
       THEN /\ eof' = TRUE
            /\ UNCHANGED <<pos, buf>>
       ELSE /\ buf' = Append(buf, chunk)
            /\ pos' = pos + Len(chunk)
            /\ UNCHANGED eof
    /\ UNCHANGED <<env, proc, fd, flowing, ended, emitted, dests, outcome, ledger,
                   pager, errListener, errSeen>>

\* the pager's stdin has lost its reader and the exit is not yet handled
PagerGone == "pager" \in piped /\ pager = "exited"

\* pipe's ondata: the next chunk is emitted and written to every piped
\* destination; a write that returns false pauses the source
Forward ==
    /\ phase = "running"
    /\ flowing = "flowing"
    /\ buf # <<>>
    /\ piped # {}
    /\ ~PagerGone
    /\ buf' = Tail(buf)
    /\ emitted' = emitted \o Head(buf)
    /\ destBuf' = [d \in Dests |-> IF d \in piped THEN destBuf[d] \o Head(buf)
                                    ELSE destBuf[d]]
    /\ awaitDrain' = {d \in piped : Len(destBuf'[d]) >= WritableHWM}
    /\ flowing' = IF awaitDrain' = {} THEN "flowing" ELSE "paused"
    /\ UNCHANGED <<env, proc, fd, pos, eof, ended, piped, recv, destEnded, attachedAt, handle, endCalls,
                   outcome, ledger, pager, errListener, errSeen>>

\* a write reaches the pager's stdin after the pager has gone: EPIPE is
\* emitted on that stdin, pipe's onerror finds no other listener and rethrows
WriteEPIPE ==
    /\ phase = "running"
    /\ PagerGone
    /\ \/ "pager" \in awaitDrain
       \/ flowing = "flowing" /\ buf # <<>>
    /\ Crash("EPIPE")
    /\ UNCHANGED <<env, run, isMain, argv, cwd, exported, path, pos, buf, eof, flowing,
                   ended, emitted, dests, ledger, pager, errListener, errSeen>>

\* the consumer behind destination d takes one byte; an emptied buffer
\* emits 'drain', and the source flows again once nobody awaits a drain
DestAccept(d) ==
    /\ phase = "running"
    /\ destBuf[d] # <<>>
    /\ d = "pager" => pager = "running"
    /\ recv' = [recv EXCEPT ![d] = Append(@, Head(destBuf[d]))]
    /\ destBuf' = [destBuf EXCEPT ![d] = Tail(@)]
    /\ awaitDrain' = IF destBuf'[d] = <<>> THEN awaitDrain \ {d} ELSE awaitDrain
    /\ flowing' = IF flowing = "paused" /\ awaitDrain' = {} /\ piped # {}
                  THEN "flowing" ELSE flowing
    /\ UNCHANGED <<env, proc, fd, pos, buf, eof, ended, emitted, piped, destEnded,
                   attachedAt, handle, endCalls, outcome, ledger, pager, errListener, errSeen>>

PipeEnds_Never(d) == FALSE

\* pipe's onend: end() is called on each destination piped at 'end'
PipeEnds(d) == d \in piped

EndReady_Early == eof

\* 'end' is due once end of file was seen and the buffer has been emitted
EndReady == eof /\ buf = <<>>

\* the buffer is empty after end of file: 'end' is emitted, pipe's onend ends
\* every piped destination, and autoClose closes the descriptor
EmitEnd ==
    /\ phase = "running"
    /\ EndReady
    /\ flowing = "flowing"
    /\ ~ended
    /\ ended' = TRUE
    /\ fd' = FdAfterEnd
    /\ destEnded' = [d \in Dests |-> destEnded[d] \/ PipeEnds(d)]
    /\ endCalls' = [d \in Dests |-> IF PipeEnds(d) THEN endCalls[d] + 1 ELSE endCalls[d]]
    /\ piped' = {}
    /\ completed' = Append(completed, emitted)
    /\ UNCHANGED <<env, proc, pos, buf, eof, flowing, emitted, awaitDrain, destBuf, recv,
                   attachedAt, handle, opened, opens, outcome, pager, errListener, errSeen>>

\* the pager process ends: it has shown everything, or the user quits it
PagerQuit ==
    /\ phase = "running"
    /\ pager = "running"
    /\ pager' = "exited"
    /\ UNCHANGED <<env, proc, stream, dests, outcome, ledger, errListener, errSeen>>

\* the child's exit is handled: its stdin is destroyed, 'close' unpipes it
OnPagerExit ==
    /\ phase = "running"
    /\ pager = "exited"
    /\ pager' = "reaped"
    /\ piped' = piped \ {"pager"}
    /\ awaitDrain' = awaitDrain \ {"pager"}
    /\ flowing' = IF "pager" \in piped THEN "paused" ELSE flowing
    /\ UNCHANGED <<env, proc, fd, pos, buf, eof, ended, emitted, destBuf, recv, destEnded,
                   attachedAt, handle, endCalls, outcome, ledger, errListener, errSeen>>

\* the pager could not be spawned: the child emits 'error', nobody listens
SpawnError ==
    /\ phase = "running"
    /\ pager = "failed"
    /\ Crash("spawn ENOENT")
    /\ UNCHANGED <<env, run, isMain, argv, cwd, exported, path, pos, buf, eof, flowing,
                   ended, emitted, dests, ledger, pager, errListener, errSeen>>

\* library mode: the importing program listens for 'error' on the handle
AttachErrorListener ==
    /\ phase = "running"
    /\ ~isMain
    /\ ~errListener
    /\ errListener' = TRUE
    /\ UNCHANGED <<env, proc, stream, dests, outcome, ledger, pager, errSeen>>

PipeBacklog_Replay == emitted

\* pipe() hands a new destination nothing of what was emitted before it
PipeBacklog == <<>>

\* library mode: an importer takes module.exports (the one stream object of
\* this process) and pipes it into its own destination
AttachConsumer(d) ==
    /\ phase = "running"
    /\ ~isMain
    /\ attachedAt[d] = -1
    /\ attachedAt' = [attachedAt EXCEPT ![d] = Len(emitted)]
    /\ handle' = [handle EXCEPT ![d] = exported]
    /\ destBuf' = [destBuf EXCEPT ![d] = @ \o PipeBacklog]
    /\ IF ended
       THEN /\ destEnded' = [destEnded EXCEPT ![d] = TRUE]
            /\ endCalls' = [endCalls EXCEPT ![d] = @ + 1]
            /\ UNCHANGED <<piped, flowing>>
       ELSE /\ piped' = piped \cup {d}
            /\ flowing' = IF awaitDrain = {} THEN "flowing" ELSE flowing
            /\ UNCHANGED <<destEnded, endCalls>>
    /\ UNCHANGED <<env, proc, fd, pos, buf, eof, ended, emitted, awaitDrain, recv,
                   outcome, ledger, pager, errListener, errSeen>>

\* nothing keeps the event loop alive: the process exits normally
Idle ==
    /\ fd # "opening"
    /\ pager \in {"none", "reaped"}
    /\ ~(fd = "open" /\ ~eof /\ flowing # "null" /\ ReadWanted)
    /\ ~(flowing = "flowing" /\ buf # <<>> /\ piped # {})
    /\ ~(EndReady /\ flowing = "flowing" /\ ~ended)
    /\ \A d \in Importers : destBuf[d] = <<>>

ProcessExit ==
    /\ phase = "running"
    /\ Idle
    /\ phase' = "exited"
    /\ exitCode' = 0
    /\ fd' = TeardownFd(fd)
    /\ UNCHANGED <<env, run, isMain, argv, cwd, exported, path, pos, buf, eof, flowing,
                   ended, emitted, dests, stderr, ledger, pager, errListener, errSeen>>

Next ==
    \/ \E main \in BOOLEAN, args \in Argvs, dir \in Cwds : Load(main, args, dir)
    \/ OpenOk
    \/ OpenFail
    \/ Read
    \/ Forward
    \/ WriteEPIPE
    \/ \E d \in Dests : DestAccept(d)
    \/ EmitEnd
    \/ PagerQuit
    \/ OnPagerExit
    \/ SpawnError
    \/ AttachErrorListener
    \/ \E d \in Importers : AttachConsumer(d)
    \/ ProcessExit

Spec == Init /\ [][Next]_vars

TypeOK ==
    /\ run \in 0..MaxRuns
    /\ phase \in {"none", "running", "exited"}
    /\ fd \in {"none", "opening", "open", "closed", "failed"}
    /\ pos \in 0..(MaxDocLen + 1)
    /\ piped \subseteq Dests
    /\ awaitDrain \subseteq Dests
    /\ exitCode \in {-1, 0, 1}

\* the scheduling node guarantees: pending I/O completes, handlers run, and a
\* consumer that has bytes waiting reads them; starting the program, quitting
\* the pager and attaching listeners are the user's and importer's choices
FairSpec ==
    /\ Spec
    /\ WF_vars(OpenOk)
    /\ WF_vars(OpenFail)
    /\ WF_vars(Read)
    /\ WF_vars(Forward)
    /\ WF_vars(WriteEPIPE)
    /\ WF_vars(EmitEnd)
    /\ WF_vars(OnPagerExit)
    /\ WF_vars(SpawnError)
    /\ WF_vars(ProcessExit)
    /\ \A d \in Dests : WF_vars(DestAccept(d))

\* ---------------------------------------------------------------- claims
Loaded == phase # "none"

BundledKind == disk[BundledPath].kind

\* what the terminal shows: the pager inherits fd 1 and the program itself
\* never writes to it
Stdout == recv["pager"]

\* everything written into destination d so far
Written(d) == recv[d] \o destBuf[d]

\* C1: after a library-mode load no pager exists and no Document byte was ever
\* written towards a display; the load's only result is the exported handle.
C1_LibraryLoadNoPager ==
    (Loaded /\ ~isMain) =>
        /\ pager = "none"
        /\ Written("pager") = <<>>
        /\ Stdout = <<>>
        /\ "pager" \notin piped
        /\ attachedAt["pager"] = -1
        /\ exported = run

C1_Witness ==
    /\ ~isMain
    /\ phase = "running"
    /\ ended
    /\ Len(Document) = MaxDocLen
    /\ recv["importerA"] = Document
    /\ pager = "none"

\* C2: in entry-point mode what the pager was given is always a prefix of the
\* Document, byte for byte, and with an openable Document and a pager that
\* keeps reading, the pager eventually holds the whole Document (or was quit).
C2_PagerGetsDocument ==
    /\ [](isMain => /\ IsPrefix(Written("pager"), Document)
                    /\ Written("pager") = emitted
                    /\ (destEnded["pager"] => Written("pager") = Document))
    /\ ((phase = "running" /\ isMain /\ BundledKind = "file" /\ pagerInstalled)
            ~> (pager \in {"exited", "reaped"} \/ recv["pager"] = Document))

C2_Witness ==
    /\ isMain
    /\ Len(Document) = MaxDocLen
    /\ recv["pager"] = Document
    /\ destEnded["pager"]
    /\ pager = "running"

\* C3: entry-point mode with the Document absent: nothing is ever displayed,
\* and the run ends, with a non-zero exit code and a diagnostic on stderr
\* (the ENOENT of the open when the pager itself could be started).
C3_MissingDocumentFails ==
    /\ []((Loaded /\ isMain /\ BundledKind = "absent") =>
            /\ Stdout = <<>>
            /\ Written("pager") = <<>>
            /\ (phase = "exited" =>
                    /\ exitCode # 0
                    /\ stderr # <<>>
                    /\ (pagerInstalled => stderr = <<"ENOENT">>)))
    /\ ((phase = "running" /\ isMain /\ BundledKind = "absent") ~> phase = "exited")

C3_Witness ==
    /\ isMain
    /\ BundledKind = "absent"
    /\ pagerInstalled
    /\ phase = "exited"
    /\ exitCode = 1
    /\ stderr = <<"ENOENT">>

C6_AlwaysExitZero ==
    (phase = "exited" /\ isMain /\ BundledKind = "file" /\ pagerInstalled) => exitCode = 0

\* C7 (as claimed): in library mode a Document that cannot be opened never
\* ends the importing process.
C7_NeverExitsImporter ==
    (Loaded /\ ~isMain /\ BundledKind # "file") => ~(phase = "exited" /\ exitCode # 0)

\* C7 (amended): in library mode a failed open is emitted as 'error' on the
\* handle; a listener the importer attached in time receives it and the
\* process is not ended by it; with no listener the process exits non-zero
\* with the diagnostic; the failure never goes unreported.
C7_ErrorOnHandleOrUncaught ==
    (Loaded /\ ~isMain /\ BundledKind # "file") =>
        /\ errSeen # "none" =>
                /\ errListener
                /\ exitCode # 1
                /\ fd = "failed"
                /\ errSeen = (IF BundledKind = "absent" THEN "ENOENT" ELSE "EACCES")
        /\ exitCode = 1 =>
                /\ ~errListener
                /\ errSeen = "none"
                /\ stderr = <<(IF BundledKind = "absent" THEN "ENOENT" ELSE "EACCES")>>
        /\ (phase = "exited" /\ exitCode = 0) => errSeen # "none"
        /\ emitted = <<>>

C7_Witness ==
    /\ ~isMain
    /\ BundledKind = "absent"
    /\ errSeen = "ENOENT"
    /\ phase = "running"
    /\ "importerA" \in piped

\* a step of the program, of the pager or of a consumer (not a new choice of
\* the user or the importer)
Step ==
    \/ OpenOk
    \/ OpenFail
    \/ Read
    \/ Forward
    \/ WriteEPIPE
    \/ \E d \in Dests : DestAccept(d)
    \/ EmitEnd
    \/ PagerQuit
    \/ OnPagerExit
    \/ SpawnError
    \/ ProcessExit

\* C8: the descriptor is not held once the stream has ended, once the open
\* has failed, or once the process has exited (early pager quit included);
\* and while it is held the run is not over: some step is still to come.
C8_DescriptorReleased ==
    /\ ended => fd = "closed"
    /\ errSeen # "none" => fd \notin {"open", "opening"}
    /\ phase = "exited" => fd \notin {"open", "opening"}
    /\ fd \in {"open", "opening"} => ENABLED Step

C8_Witness ==
    /\ isMain
    /\ phase = "exited"
    /\ pager = "reaped"
    /\ ~ended
    /\ pos > 0
    /\ pos < Len(Document)
    /\ fd = "closed"

\* C9 (as claimed): an entry-point run whose pager cannot be started still
\* succeeds and has written the Document to standard output.
C9_DegradesToStdout ==
    (phase = "exited" /\ isMain /\ ~pagerInstalled /\ BundledKind = "file") =>
        (exitCode = 0 /\ Stdout = Document)

\* C10: whatever the arguments, an entry-point run opens the bundled file,
\* forwards only its bytes, and fails only for a cause in its environment
\* (document missing or unreadable, pager missing or gone), never for them.
C10_ArgumentsIgnored ==
    (Loaded /\ isMain) =>
        /\ path = BundledPath
        /\ IsPrefix(emitted, Document)
        /\ Written("pager") = emitted
        /\ exitCode = 1 =>
                \/ stderr = <<"ENOENT">> /\ BundledKind = "absent"
                \/ stderr = <<"EACCES">> /\ BundledKind = "noaccess"
                \/ stderr = <<"spawn ENOENT">> /\ ~pagerInstalled
                \/ stderr = <<"EPIPE">> /\ pager = "exited"
        /\ exitCode # 1 => stderr = <<>>

C10_Witness ==
    /\ isMain
    /\ argv # <<>>
    /\ phase = "exited"
    /\ exitCode = 0
    /\ Len(Document) = MaxDocLen
    /\ Stdout = Document

\* C11: every run, whatever its working directory, opens the README.md next
\* to the program's own directory; runs that differ in the working directory
\* open the same file and produce the same output.
C11_PathFromInstallDir ==
    /\ \A a \in opened : a.path = BundledPath
    /\ \A a, b \in opened : a.path = b.path
    /\ Loaded => (path = BundledPath /\ IsPrefix(emitted, disk[BundledPath].data))
    /\ \A i, j \in 1..Len(completed) : completed[i] = completed[j]

C11_Witness ==
    /\ \E a, b \in opened : a.cwd # b.cwd
    /\ cwd # Dirname
    /\ Len(completed) = 2
    /\ Len(Document) = MaxDocLen
    /\ completed[1] = Document

\* bytes read from the file and not yet taken by the consumer behind d
InFlight(d) == BufLen(buf) + Len(destBuf[d])

\* what the two buffers of the transport can hold: the readable buffer up to
\* its mark, the writable one up to its mark, each overshot by less than a chunk
Capacity == 2 * HighWaterMark + WritableHWM - 1

C13_SingleSharedStream ==
    Loaded =>
        /\ opens = 1
        /\ exported = run
        /\ \A d \in Importers : attachedAt[d] >= 0 =>
                /\ handle[d] = exported
                /\ Written(d) = SubSeq(emitted, attachedAt[d] + 1, Len(emitted))

C13_Witness ==
    /\ ~isMain
    /\ ended
    /\ Len(Document) = MaxDocLen
    /\ attachedAt["importerA"] = 0
    /\ attachedAt["importerB"] > 0
    /\ handle["importerA"] = handle["importerB"]
    /\ recv["importerA"] = Document
    /\ destEnded["importerB"]
    /\ recv["importerB"] = SubSeq(Document, attachedAt["importerB"] + 1, Len(Document))

\* C14: in entry-point mode the pager is spawned and piped by the load itself,
\* so whenever the outcome of the open arrives the pager has already been
\* spawned and piped from offset 0; an open failure is reported only then.
C14_PagerBeforeOpenOutcome ==
    /\ []((Loaded /\ isMain) =>
            /\ pager # "none"
            /\ attachedAt["pager"] = 0
            /\ handle["pager"] = exported
            /\ (pagerInstalled => pager \in {"running", "exited", "reaped"})
            /\ (fd = "opening" => (stderr = <<>> \/ stderr = <<"spawn ENOENT">>)))
    /\ [][(isMain /\ fd = "opening" /\ fd' # "opening" /\ run' = run) =>
            (pager # "none" /\ attachedAt["pager"] = 0 /\ pager' = pager)]_vars

C14_Witness ==
    /\ isMain
    /\ phase = "exited"
    /\ stderr = <<"ENOENT">>
    /\ pager = "running"
    /\ attachedAt["pager"] = 0

\* C15: in entry-point mode end() is called on the pager's stdin at most once,
\* only when every byte of the Document has been written to it; nothing is
\* written to it afterwards; and with an openable Document and a pager that
\* keeps reading, it is called unless the pager is quit first.
C15_PagerEndedOnceAfterAll ==
    /\ []((Loaded /\ isMain) =>
            /\ endCalls["pager"] <= 1
            /\ (destEnded["pager"] <=> endCalls["pager"] = 1)
            /\ (destEnded["pager"] =>
                    /\ Written("pager") = Document
                    /\ buf = <<>>
                    /\ pos = Len(Document)
                    /\ ended))
    /\ [][(isMain /\ destEnded["pager"] /\ run' = run) =>
            /\ recv'["pager"] \o destBuf'["pager"] = Written("pager")
            /\ endCalls'["pager"] = endCalls["pager"]]_vars
    /\ ((phase = "running" /\ isMain /\ BundledKind = "file" /\ pagerInstalled)
            ~> (destEnded["pager"] \/ pager \in {"exited", "reaped"}))

C15_Witness ==
    /\ isMain
    /\ Len(Document) = MaxDocLen
    /\ destEnded["pager"]
    /\ endCalls["pager"] = 1
    /\ recv["pager"] = Document
    /\ fd = "closed"
    /\ pager = "running"

====
